---- MODULE Spec2Model ----
(***************************************************************************)
(* kp: a command line helper for AtCoder contests (src/src/main.rs).       *)
(*                                                                         *)
(* The model follows main() statement by statement.  A text (a command     *)
(* line, a path, a file's contents, a message) is a sequence of tokens; a  *)
(* token is one character, or one literal fragment of a format string of   *)
(* the source.  No literal fragment starts or ends with a path separator,  *)
(* so the tests PathBuf::push makes on the first and the last character    *)
(* of a path are tests on the first and the last token.  A character with  *)
(* no escape in a string is written as the token of its code point         *)
(* ("U+000B"); the bytes of a file, of a path or of a binary's output are  *)
(* the units a UTF-8 decoder cuts them into: one token for each character  *)
(* that is well formed, and one token BAD for each maximal ill-formed      *)
(* sequence of bytes.                                                      *)
(*                                                                         *)
(* The environment (the shell, cargo, oj, npx, the solution binaries, the  *)
(* file system) answers each step nondeterministically.                    *)
(***************************************************************************)
EXTENDS Integers, Sequences, FiniteSets, TLC

\* ------------------------------------------------------------------ bounds
\* Longest text explored by the pure-function specifications.
MaxLen == 4
\* Most entries read_dir yields for a freshly created contest directory.
MaxEntries == 2

\* ------------------------------------------------------------------- texts
\* U+FEFF, U+FFFD, and one maximal sequence of bytes that is not valid
\* UTF-8 (a byte FF, or a multi-byte sequence cut short such as E2 82): what a
\* decoder reports as one error and from_utf8_lossy replaces by one U+FFFD.
BOM == "BOM"
REPLACEMENT == "REPL"
BAD == "BAD"

RECURSIVE SeqsUpTo(_, _)
SeqsUpTo(S, n) ==
    IF n = 0 THEN {<<>>}
    ELSE LET shorter == SeqsUpTo(S, n - 1)
         IN  shorter \cup {Append(s, c) : s \in shorter, c \in S}

Contains(text, part) ==
    \E i \in 1..(Len(text) - Len(part) + 1) :
        SubSeq(text, i, i + Len(part) - 1) = part

Last(s) == s[Len(s)]
Front(s) == SubSeq(s, 1, Len(s) - 1)

\* Option<T>: None is <<>>, Some(x) is <<x>>.
None == <<>>
Some(x) == <<x>>
IsSome(o) == o # <<>>
Unwrap(o) == o[1]

\* ------------------------------------------------ str: trimming (std::str)
\* char::is_whitespace: the code points with the Unicode property
\* White_Space (U+FEFF is not one of them).
WHITE_SPACE ==
    {"\t", "\n", "U+000B", "\f", "\r", " ", "U+0085", "U+00A0", "U+1680",
     "U+2000", "U+2001", "U+2002", "U+2003", "U+2004", "U+2005", "U+2006",
     "U+2007", "U+2008", "U+2009", "U+200A", "U+2028", "U+2029", "U+202F",
     "U+205F", "U+3000"}

is_whitespace(c) == c \in WHITE_SPACE

\* str::trim_start_matches with a one-character pattern: removes the prefix
\* repeatedly, as long as it matches.
RECURSIVE trim_start_matches(_, _)
trim_start_matches(s, pat) ==
    IF s # <<>> /\ Head(s) = pat THEN trim_start_matches(Tail(s), pat) ELSE s

RECURSIVE trim_start(_)
trim_start(s) ==
    IF s # <<>> /\ is_whitespace(Head(s)) THEN trim_start(Tail(s)) ELSE s

RECURSIVE trim_end(_)
trim_end(s) ==
    IF s # <<>> /\ is_whitespace(Last(s)) THEN trim_end(Front(s)) ELSE s

trim(s) == trim_end(trim_start(s))

\* contents.trim_start_matches("\u{feff}")  (lines 152, 299, 381)
strip_one_bom(contents) ==
    IF contents # <<>> /\ Head(contents) = BOM THEN Tail(contents) ELSE contents

strip_bom(contents) == trim_start_matches(contents, BOM)

\* String::from_utf8_lossy: every maximal ill-formed sequence becomes one
\* U+FFFD.
from_utf8_lossy(bytes) ==
    [i \in 1..Len(bytes) |-> IF bytes[i] = BAD THEN REPLACEMENT ELSE bytes[i]]

\* ------------------------------------------------ files (std::fs)
\* A file of the file system: err is "" for a readable file with the given
\* bytes, or the io::ErrorKind opening it gives.
File(err, bytes) == [err |-> err, bytes |-> bytes]

\* fs::read_to_string: Err for a file that cannot be opened and for bytes
\* that are not UTF-8; Ok(text) otherwise.
read_to_string(file) ==
    IF file.err # "" THEN [ok |-> FALSE, val |-> <<file.err>>]
    ELSE IF \E i \in 1..Len(file.bytes) : file.bytes[i] = BAD
         THEN [ok |-> FALSE, val |-> <<"InvalidData">>]
    ELSE [ok |-> TRUE, val |-> file.bytes]

\* ------------------------------------------------ paths (std::path)
\* cfg!(target_os = "windows")
Windows == "windows"
Unix == "unix"
OSes == {Windows, Unix}

MAIN_SEPARATOR(os) == IF os = Windows THEN "\\" ELSE "/"
is_sep(os, c) == c = "/" \/ (os = Windows /\ c = "\\")

\* Path::has_root for a path without a Windows drive prefix.
has_root(os, p) == p # <<>> /\ is_sep(os, Head(p))

\* PathBuf::join (PathBuf::push) for paths without a Windows drive prefix: a
\* rooted argument replaces the base; otherwise a separator is added unless
\* the base is empty or ends with one.
join(os, base, p) ==
    IF has_root(os, p) THEN p
    ELSE IF base # <<>> /\ ~is_sep(os, Last(base))
         THEN base \o <<MAIN_SEPARATOR(os)>> \o p
    ELSE base \o p

\* Path::file_name: what follows the last separator.
file_name(os, p) ==
    LET seps == {i \in 1..Len(p) : is_sep(os, p[i])}
        start == IF seps = {} THEN 1
                 ELSE 1 + CHOOSE i \in seps : \A j \in seps : j <= i
    IN  SubSeq(p, start, Len(p))

\* get_executable_path (lines 80-88)
get_executable_path(os, problem_dir_, build_mode) ==
    join(os, join(os, join(os, problem_dir_, <<"target">>), <<build_mode>>),
         IF os = Windows THEN <<"bin.exe">> ELSE <<"bin">>)

\* Path::to_str: None for a path that is not valid Unicode.
to_str(p) == IF \E i \in 1..Len(p) : p[i] = BAD THEN None ELSE Some(p)

\* Path::display, printed with {}: the path, lossily converted.
display(p) == from_utf8_lossy(p)

\* The characters of the model that char::escape_debug writes as \u{..}
\* because they are not printable (the controls, the format characters and
\* the separators other than the space), with the digits of their code point.
unicode_escape_digits(c) ==
    CASE c = "U+000B" -> <<"b">>
      [] c = "\f" -> <<"c">>
      [] c = "U+0085" -> <<"8", "5">>
      [] c = "U+00A0" -> <<"a", "0">>
      [] c = "U+1680" -> <<"1", "6", "8", "0">>
      [] c = "U+2000" -> <<"2", "0", "0", "0">>
      [] c = "U+2001" -> <<"2", "0", "0", "1">>
      [] c = "U+2002" -> <<"2", "0", "0", "2">>
      [] c = "U+2003" -> <<"2", "0", "0", "3">>
      [] c = "U+2004" -> <<"2", "0", "0", "4">>
      [] c = "U+2005" -> <<"2", "0", "0", "5">>
      [] c = "U+2006" -> <<"2", "0", "0", "6">>
      [] c = "U+2007" -> <<"2", "0", "0", "7">>
      [] c = "U+2008" -> <<"2", "0", "0", "8">>
      [] c = "U+2009" -> <<"2", "0", "0", "9">>
      [] c = "U+200A" -> <<"2", "0", "0", "a">>
      [] c = "U+2028" -> <<"2", "0", "2", "8">>
      [] c = "U+2029" -> <<"2", "0", "2", "9">>
      [] c = "U+202F" -> <<"2", "0", "2", "f">>
      [] c = "U+205F" -> <<"2", "0", "5", "f">>
      [] c = "U+3000" -> <<"3", "0", "0", "0">>
      [] c = BOM -> <<"f", "e", "f", "f">>
      [] OTHER -> <<>>

\* What OsStr's Debug writes for one unit of a path: the backslash and the
\* double quote get a backslash (the apostrophe does not and stays), tab, line
\* feed and carriage return their letter, a character that is not printable its code
\* point as \u{..}, an ill-formed sequence its bytes as \xNN (on Windows
\* \u{NNNN}); a printable character stays.  The characters of the model are
\* the printable ASCII characters, the White_Space code points, U+FEFF and
\* U+FFFD.
escape_debug_char(os, c) ==
    IF c \in {"\\", "\""} THEN <<"\\", c>>
    ELSE IF c = "\n" THEN <<"\\", "n">>
    ELSE IF c = "\r" THEN <<"\\", "r">>
    ELSE IF c = "\t" THEN <<"\\", "t">>
    ELSE IF c = BAD THEN <<IF os = Windows THEN "\\u{BAD}" ELSE "\\xBAD">>
    ELSE IF unicode_escape_digits(c) # <<>>
    THEN <<"\\", "u", "{">> \o unicode_escape_digits(c) \o <<"}">>
    ELSE <<c>>

RECURSIVE escape_debug(_, _)
escape_debug(os, p) ==
    IF p = <<>> THEN <<>>
    ELSE escape_debug_char(os, Head(p)) \o escape_debug(os, Tail(p))

\* Path::display, printed with {:?} (line 387): the path between double
\* quotes, escaped.
display_debug(os, p) == <<"\"">> \o escape_debug(os, p) \o <<"\"">>

\* ------------------------------------------------ the host shell
\* A command line is a sequence of tokens; the tokens " && " and " ; " are
\* the shell's connectors, and the simple commands are the runs between them.
AND_THEN == " && "
SEMICOLON == " ; "
Connectors == {AND_THEN, SEMICOLON}

ConnectorPositions(command_str) ==
    {i \in 1..Len(command_str) : command_str[i] \in Connectors}

NumSimple(command_str) == 1 + Cardinality(ConnectorPositions(command_str))

\* The connector in front of the k-th simple command (k > 1).
ConnectorBefore(command_str, k) ==
    LET pos == CHOOSE i \in ConnectorPositions(command_str) :
                   Cardinality({j \in ConnectorPositions(command_str) : j <= i}) = k - 1
    IN  command_str[pos]

\* The text of the k-th simple command.
SimpleCommand(command_str, k) ==
    LET idx == {i \in 1..Len(command_str) :
                   /\ command_str[i] \notin Connectors
                   /\ Cardinality({j \in ConnectorPositions(command_str) : j < i}) = k - 1}
        lo == CHOOSE i \in idx : \A j \in idx : i <= j
        hi == CHOOSE i \in idx : \A j \in idx : j <= i
    IN  SubSeq(command_str, lo, hi)

\* What `bash -c` and `powershell -Command` do with a command line, given the
\* exit status st[k] each simple command would end with if it ran:
\*   a && b   runs b only if a ended with status 0;
\*   a ; b    runs b whatever a ended with.
\* The shell's own exit status is that of the last simple command it ran
\* (powershell turns any failure into 1).  ran lists, in order, the simple
\* commands that ran, each with its status.
RECURSIVE ShellFrom(_, _, _, _, _)
ShellFrom(command_str, st, k, last, ran) ==
    IF k > NumSimple(command_str) THEN [status |-> last, ran |-> ran]
    ELSE IF k > 1 /\ ConnectorBefore(command_str, k) = AND_THEN /\ last # 0
         THEN ShellFrom(command_str, st, k + 1, last, ran)
    ELSE ShellFrom(command_str, st, k + 1, st[k],
                   Append(ran, [index |-> k,
                                cmd |-> SimpleCommand(command_str, k),
                                status |-> st[k]]))

Shell(os, command_str, st) ==
    LET r == ShellFrom(command_str, st, 1, 0, <<>>)
    IN  [status |-> IF os = Windows /\ r.status # 0 THEN 1 ELSE r.status,
         ran |-> r.ran]

\* ------------------------------------------------ run_command (lines 33-56)
\* ExitStatus as format!("{}") shows it.
DisplayStatus(os, status) ==
    <<IF os = Windows THEN "exit code: " ELSE "exit status: ", ToString(status)>>

\* spawned = FALSE: Command::status() returned Err(e), e shown as io_err.
Outcome(spawned, status, io_err) ==
    [spawned |-> spawned, status |-> status, io_err |-> io_err]

run_command_ignoring_status(os, command_str, current_dir, outcome) ==
    IF outcome.spawned THEN [ok |-> TRUE, err |-> <<>>]
    ELSE [ok |-> FALSE,
          err |-> <<"failed to execute '">> \o command_str \o <<"' : ", outcome.io_err>>]

\* The Result<(), String> run_command returns.
run_command(os, command_str, current_dir, outcome) ==
    IF outcome.spawned /\ outcome.status = 0 THEN [ok |-> TRUE, err |-> <<>>]
    ELSE IF outcome.spawned
         THEN [ok |-> FALSE,
               err |-> <<"command '">> \o command_str \o <<"' failed with Error Code ">>
                       \o DisplayStatus(os, outcome.status) \o <<" .">>]
    ELSE [ok |-> FALSE,
          err |-> <<"failed to execute '">> \o command_str \o <<"' : ", outcome.io_err>>]

\* The line run_command prints before it starts the shell (line 34).
run_command_banner(command_str, current_dir) ==
    <<"cmd: '">> \o command_str \o <<"'  (dir: '">> \o display(current_dir) \o <<"')">>

\* The program run_command starts (lines 35-47).
shell_program(os) == IF os = Windows THEN "powershell" ELSE "bash"

\* ---------------------------------------- run_binary_directly (lines 59-77)
\* What the operating system and the binary do: spawn, write_all to stdin and
\* wait_with_output each succeed or fail; stdout is what the binary wrote and
\* code its exit code.
BinRun(spawn_ok, write_ok, wait_ok, out, code) ==
    [spawn_ok |-> spawn_ok, write_ok |-> write_ok, wait_ok |-> wait_ok,
     out |-> out, code |-> code]

run_binary_checking_status(binary_path, input_contents_, run) ==
    IF ~run.spawn_ok THEN [ok |-> FALSE, val |-> <<"spawn failed">>]
    ELSE IF ~run.write_ok THEN [ok |-> FALSE, val |-> <<"write failed">>]
    ELSE IF ~run.wait_ok THEN [ok |-> FALSE, val |-> <<"wait failed">>]
    ELSE IF run.code # 0 THEN [ok |-> FALSE, val |-> <<"exit status">>]
    ELSE [ok |-> TRUE, val |-> from_utf8_lossy(run.out)]

\* The Result<String, Box<dyn Error>> run_binary_directly returns: the exit
\* code of the binary is not looked at.
run_binary_directly(binary_path, input_contents_, run) ==
    IF ~run.spawn_ok THEN [ok |-> FALSE, val |-> <<"spawn failed">>]
    ELSE IF ~run.write_ok THEN [ok |-> FALSE, val |-> <<"write failed">>]
    ELSE IF ~run.wait_ok THEN [ok |-> FALSE, val |-> <<"wait failed">>]
    ELSE [ok |-> TRUE, val |-> from_utf8_lossy(run.out)]

\* ------------------------ get_expand_and_build_command (lines 90-97)
CargoExpandDebugUnix == "RUST_BACKTRACE=1 cargo expand > expand/debug.rs"
CargoExpandReleaseUnix == "RUST_BACKTRACE=1 cargo expand --release > expand/main.rs"
SetBacktraceWindows == "$Env:RUST_BACKTRACE = 1"
CargoExpandDebugWindows == "cargo expand | out-file -filepath expand/debug.rs -Encoding utf8"
CargoExpandReleaseWindows ==
    "cargo expand --release | out-file -filepath expand/main.rs -Encoding utf8"
CargoBuild == "cargo build"
CargoBuildRelease == "cargo build --release"

get_expand_and_build_command(os) ==
    IF os = Windows
    THEN <<SetBacktraceWindows, SEMICOLON, CargoExpandDebugWindows, SEMICOLON,
           CargoExpandReleaseWindows, SEMICOLON, CargoBuild, SEMICOLON, CargoBuildRelease>>
    ELSE <<CargoExpandDebugUnix, AND_THEN, CargoExpandReleaseUnix, AND_THEN,
           CargoBuild, AND_THEN, CargoBuildRelease>>

\* The sub-steps of the rebuild: every simple command but the assignment of
\* the environment variable.
RebuildSubsteps ==
    {CargoExpandDebugUnix, CargoExpandReleaseUnix, CargoExpandDebugWindows,
     CargoExpandReleaseWindows, CargoBuild, CargoBuildRelease}

\* ------------------------------------------------ the state of one run
VARIABLES
    os,               \* cfg!(target_os): the platform the program was built for
    args,             \* Args: contest, arg, action, sample, root_dir
    cwd,              \* std::env::current_dir(): Some(path), or None (an error)
    fixtures,         \* the files the file system may hold at a path that is read
    pc,               \* the statement of main() that runs next
    exit_code,        \* None while the process runs, Some(code) once it ended
    base_dir, project_dir_name, project_dir, problem_dir,
    sample_in_path, sample_out_path,
    input_contents, debug_output, release_output, expected_output,
    entries,          \* New: what is left of the read_dir iterator
    path,             \* New: the subdirectory being processed
    stdout, stderr,   \* the lines printed so far
    trace             \* every external step started so far, with its result

vars == <<os, args, cwd, fixtures, pc, exit_code, base_dir, project_dir_name,
          project_dir, problem_dir, sample_in_path, sample_out_path,
          input_contents, debug_output, release_output, expected_output,
          entries, path, stdout, stderr, trace>>

inputs == <<os, args, cwd, fixtures>>
dirs == <<base_dir, project_dir_name, project_dir, problem_dir>>
samples == <<sample_in_path, sample_out_path>>
texts == <<input_contents, debug_output, release_output, expected_output>>
walk == <<entries, path>>

\* ------------------------------------------------ the inputs explored
Str_new == <<"n", "e", "w">>
Str_test == <<"t", "e", "s", "t">>
Str_submit == <<"s", "u", "b", "m", "i", "t">>
Str_debug == <<"d", "e", "b", "u", "g">>

Contests == {<<"3">>, <<"4", "2">>}
\* A problem label, the word "new", and a label that is a rooted path.
ProblemArgs == {Str_new, <<"a">>, <<"/", "b">>}
Actions == {None, Some(Str_test), Some(Str_submit), Some(Str_debug), Some(<<"r", "u", "n">>)}
\* No sample number, a number, and a number followed by a form feed.
SampleArgs == {None, Some(<<"5">>), Some(<<"5", "\f">>)}
\* No override, an absolute one, a relative one.
RootDirs == {None, Some(<<"/", "r">>), Some(<<"r", "/">>)}
\* No current directory, one with a Unicode name, one whose name is not.
Cwds == {None, Some(<<"/", "w">>), Some(<<"/", BAD>>)}

\* The statuses a simple command may end with.
SubStatuses == {0, 1}

\* The files a path read by the program may hold.
SampleFiles ==
    {File("NotFound", <<>>), File("", <<"4", "\n">>), File("", <<BOM, BOM, "5">>),
     File("", <<BAD>>)}

\* What a solution binary may do.
BinRuns ==
    {BinRun(FALSE, FALSE, FALSE, <<>>, 0), BinRun(TRUE, FALSE, FALSE, <<>>, 0),
     BinRun(TRUE, TRUE, FALSE, <<>>, 0),
     BinRun(TRUE, TRUE, TRUE, <<"4">>, 0), BinRun(TRUE, TRUE, TRUE, <<" ", "5", "\n">>, 101),
     BinRun(TRUE, TRUE, TRUE, <<BAD, "4", "\n">>, 0)}

\* The exit code of a Rust process that panics (the expect of lines 108, 323
\* and 351, the unwrap of line 142).
PANIC_EXIT == 101

Running == exit_code = None
Exited(code) == exit_code = Some(code)

Init ==
    /\ os \in OSes
    /\ args \in [contest : Contests, arg : ProblemArgs, action : Actions,
                 sample : SampleArgs, root_dir : RootDirs]
    /\ cwd \in Cwds
    /\ fixtures = SampleFiles
    /\ pc = "start"
    /\ exit_code = None
    /\ base_dir = <<>> /\ project_dir_name = <<>> /\ project_dir = <<>>
    /\ problem_dir = <<>>
    /\ sample_in_path = <<>> /\ sample_out_path = <<>>
    /\ input_contents = <<>> /\ debug_output = <<>> /\ release_output = <<>>
    /\ expected_output = <<>>
    /\ entries = <<>> /\ path = <<>>
    /\ stdout = <<>> /\ stderr = <<>> /\ trace = <<>>

\* eprintln!(..); std::process::exit(1)
Fail(msg) ==
    /\ stderr' = Append(stderr, msg)
    /\ exit_code' = Some(1)
    /\ pc' = "exit"

\* A panic: the message goes to the error stream and the process ends with
\* exit code 101.
Panic(msg) ==
    /\ stderr' = Append(stderr, msg)
    /\ exit_code' = Some(PANIC_EXIT)
    /\ pc' = "exit"

\* main() returns.
Return ==
    /\ exit_code' = Some(0)
    /\ pc' = "exit"

\* ------------------------------------------------ main, lines 99-113
\* base_dir: the override if there is one, the current directory otherwise.
base_dir_ignoring_root(root_dir, cwd_) == cwd_

resolve_base_dir(root_dir, cwd_) == IF IsSome(root_dir) THEN root_dir ELSE cwd_

format_project_dir_name(contest) == <<"abc">> \o contest

Start ==
    /\ pc = "start"
    /\ LET base == resolve_base_dir(args.root_dir, cwd)
       IN  IF ~IsSome(base)
           THEN /\ Panic(<<"Failed to get the current directory">>)
                /\ UNCHANGED dirs
           ELSE /\ base_dir' = Unwrap(base)
                /\ project_dir_name' = format_project_dir_name(args.contest)
                /\ project_dir' = join(os, base_dir', project_dir_name')
                /\ pc' = "dispatch"
                /\ UNCHANGED <<problem_dir, stderr, exit_code>>
    /\ UNCHANGED <<inputs, samples, texts, walk, stdout, trace>>

\* ------------------------------------------------ main, lines 116, 213-218, 415-425
is_new_mode(a) == a.arg = Str_new /\ ~IsSome(a.action)

KnownActions == {Str_test, Str_submit, Str_debug}

\* The first statement of the branch of an action (lines 218, 243, 277).
first_step(action) ==
    IF action = Str_test THEN "test_build"
    ELSE IF action = Str_submit THEN "submit_build"
    ELSE "debug_build"

Dispatch ==
    /\ pc = "dispatch"
    /\ IF is_new_mode(args)
       THEN /\ pc' = "new_install"
            /\ UNCHANGED <<problem_dir, stderr, exit_code>>
       ELSE IF IsSome(args.action)
       THEN /\ problem_dir' = join(os, project_dir, args.arg)
            /\ IF Unwrap(args.action) \in KnownActions
               THEN /\ pc' = first_step(Unwrap(args.action))
                    /\ UNCHANGED <<stderr, exit_code>>
               ELSE Fail(<<"Unknown action: ">> \o Unwrap(args.action)
                         \o <<". Allowed actions are 'test', 'submit', or 'debug'.">>)
       ELSE /\ Fail(<<"Invalid arguments.">>)
            /\ UNCHANGED problem_dir
    /\ UNCHANGED <<inputs, base_dir, project_dir_name, project_dir, samples, texts,
                   walk, stdout, trace>>

\* ------------------------------------------------ a run_command call site
\* println!(printed..);
\* if let Err(e) = run_command(cmd, dir) { eprintln!(prefix, e); exit(1) }
\* The environment decides whether the shell starts and how each simple
\* command of the command line ends.
CommandEvent(command_str, current_dir, outcome, ran, result) ==
    [op |-> "run_command", program |-> shell_program(os), what |-> command_str,
     dir |-> current_dir, outcome |-> outcome, ran |-> ran, result |-> result,
     ok |-> result.ok]

RunCommandStepNoExit(printed, command_str, current_dir, prefix, next) ==
    \E spawned \in BOOLEAN, st \in [1..NumSimple(command_str) -> SubStatuses] :
        /\ \A k \in DOMAIN st :
               (~spawned \/ SimpleCommand(command_str, k) = <<SetBacktraceWindows>>)
                   => st[k] = 0
        /\ LET sh == Shell(os, command_str, st)
               outcome == IF spawned THEN Outcome(TRUE, sh.status, "")
                          ELSE Outcome(FALSE, 0, "NotFound")
               result == run_command(os, command_str, current_dir, outcome)
           IN  /\ stdout' = stdout \o printed
                              \o <<run_command_banner(command_str, current_dir)>>
               /\ trace' = Append(trace,
                                  CommandEvent(command_str, current_dir, outcome,
                                               IF spawned THEN sh.ran ELSE <<>>, result))
               /\ pc' = next
               /\ exit_code' = exit_code
               /\ stderr' = IF result.ok THEN stderr
                            ELSE Append(stderr, prefix \o result.err)

RunCommandStep(printed, command_str, current_dir, prefix, next) ==
    \E spawned \in BOOLEAN, st \in [1..NumSimple(command_str) -> SubStatuses] :
        /\ \A k \in DOMAIN st :
               (~spawned \/ SimpleCommand(command_str, k) = <<SetBacktraceWindows>>)
                   => st[k] = 0
        /\ LET sh == Shell(os, command_str, st)
               outcome == IF spawned THEN Outcome(TRUE, sh.status, "")
                          ELSE Outcome(FALSE, 0, "NotFound")
               result == run_command(os, command_str, current_dir, outcome)
           IN  /\ stdout' = stdout \o printed
                              \o <<run_command_banner(command_str, current_dir)>>
               /\ trace' = Append(trace,
                                  CommandEvent(command_str, current_dir, outcome,
                                               IF spawned THEN sh.ran ELSE <<>>, result))
               /\ IF result.ok
                  THEN pc' = next /\ UNCHANGED <<stderr, exit_code>>
                  ELSE Fail(prefix \o result.err)

bin_path(os_) ==
    IF os_ = Windows THEN "target/release/bin.exe" ELSE "target/release/bin"

oj_test_cmd(os_) == <<"oj test -c \"", bin_path(os_), "\" -d ./tests">>

submit_cmd == <<"npx atcoder-cli submit">>

InDir(what, dir) == <<what, " in directory (">> \o display(dir) \o <<"): ">>

\* ------------------------------------------------ test, lines 218-242
TestBuild ==
    /\ pc = "test_build"
    /\ RunCommandStep(<<>>, get_expand_and_build_command(os), problem_dir,
                      InDir("cargo expand/build failed", problem_dir),
                      "test_oj")
    /\ UNCHANGED <<inputs, dirs, samples, texts, walk>>

TestOj ==
    /\ pc = "test_oj"
    /\ RunCommandStep(<<>>, oj_test_cmd(os), problem_dir,
                      InDir("oj test failed", problem_dir), "return")
    /\ UNCHANGED <<inputs, dirs, samples, texts, walk>>

\* ------------------------------------------------ submit, lines 243-276
SubmitBuild ==
    /\ pc = "submit_build"
    /\ RunCommandStep(<<>>, get_expand_and_build_command(os), problem_dir,
                      InDir("cargo expand/build failed", problem_dir),
                      "submit_oj")
    /\ UNCHANGED <<inputs, dirs, samples, texts, walk>>

SubmitOjUnguarded ==
    /\ pc = "submit_oj"
    /\ RunCommandStepNoExit(<<>>, oj_test_cmd(os), problem_dir,
                            <<"Tests failed in directory (">> \o display(problem_dir)
                                \o <<"). ">>,
                            "submit_submit")
    /\ UNCHANGED <<inputs, dirs, samples, texts, walk>>

SubmitOj ==
    /\ pc = "submit_oj"
    /\ RunCommandStep(<<>>, oj_test_cmd(os), problem_dir,
                      <<"Tests failed in directory (">> \o display(problem_dir)
                          \o <<"). Submission aborted. ">>,
                      "submit_submit")
    /\ UNCHANGED <<inputs, dirs, samples, texts, walk>>

SubmitSubmit ==
    /\ pc = "submit_submit"
    /\ RunCommandStep(<<>>, submit_cmd, problem_dir,
                      InDir("npx atcoder-cli submit failed", problem_dir), "return")
    /\ UNCHANGED <<inputs, dirs, samples, texts, walk>>

\* ------------------------------------------------ debug, lines 277-414
\* highlight::bgcolors::<color>(&TrueColor) and highlight::reset(&TrueColor)
Header(title) == <<"bg:green", title, "reset">>
SUCCESS_BANNER == <<"bg:lightblue", "[Complete] Output matches expected output.", "reset">>
FAILURE_BANNER == <<"bg:red", "[Failed] Output does not match expected output.", "reset">>

DebugBuild ==
    /\ pc = "debug_build"
    /\ RunCommandStep(<<>>, get_expand_and_build_command(os), problem_dir,
                      InDir("cargo expand/build failed", problem_dir),
                      "debug_read_input")
    /\ UNCHANGED <<inputs, dirs, samples, texts, walk>>

DEFAULT_SAMPLE == <<"1">>
sample_number_ignoring_arg(a) == DEFAULT_SAMPLE

sample_number(a) == IF IsSome(a.sample) THEN Unwrap(a.sample) ELSE DEFAULT_SAMPLE

sample_path(os_, problem_dir_, number, ext) ==
    join(os_, problem_dir_, <<"tests/sample-">> \o number \o <<ext>>)

ReadEvent(file_path, file, result) ==
    [op |-> "read_to_string", what |-> file_path, file |-> file, result |-> result,
     ok |-> result.ok]

\* lines 288-309
DebugReadInput ==
    /\ pc = "debug_read_input"
    /\ sample_in_path' = sample_path(os, problem_dir, sample_number(args), ".in")
    /\ sample_out_path' = sample_path(os, problem_dir, sample_number(args), ".out")
    /\ \E file \in fixtures :
           LET result == read_to_string(file)
           IN  /\ trace' = Append(trace, ReadEvent(sample_in_path', file, result))
               /\ IF result.ok
                  THEN /\ input_contents' = strip_bom(result.val)
                       /\ stdout' = stdout \o <<Header("[input]"), input_contents'>>
                       /\ pc' = "debug_run_debug"
                       /\ UNCHANGED <<stderr, exit_code>>
                  ELSE /\ Fail(<<"Failed to read sample input file '">>
                               \o display(sample_in_path')
                               \o <<"' : ">> \o result.val)
                       /\ stdout' = Append(stdout, Header("[input]"))
                       /\ UNCHANGED input_contents
    /\ UNCHANGED <<inputs, dirs, debug_output, release_output, expected_output, walk>>

BinEvent(binary_path, stdin, run, result) ==
    [op |-> "run_binary_directly", what |-> binary_path, stdin |-> stdin, run |-> run,
     result |-> result, ok |-> result.ok]

\* lines 311-336
DebugRunDebug ==
    /\ pc = "debug_run_debug"
    /\ \E run \in BinRuns :
           LET debug_bin_path == get_executable_path(os, problem_dir, "debug")
               result == run_binary_directly(debug_bin_path, input_contents, run)
           IN  IF ~IsSome(to_str(debug_bin_path))
               THEN /\ Panic(<<"Failed to convert debug binary path to string">>)
                    /\ stdout' = Append(stdout, Header("[debug output]"))
                    /\ UNCHANGED <<debug_output, trace>>
               ELSE
               /\ trace' = Append(trace,
                                  BinEvent(debug_bin_path, input_contents, run, result))
               /\ IF result.ok
                  THEN /\ debug_output' = result.val
                       /\ stdout' = stdout \o <<Header("[debug output]"),
                                                 <<"run bin: ">> \o debug_bin_path,
                                                 debug_output'>>
                       /\ pc' = "debug_run_release"
                       /\ UNCHANGED <<stderr, exit_code>>
                  ELSE /\ Fail(InDir("Debug run (debug binary) failed", problem_dir)
                               \o result.val)
                       /\ stdout' = stdout \o <<Header("[debug output]"),
                                                 <<"run bin: ">> \o debug_bin_path>>
                       /\ UNCHANGED debug_output
    /\ UNCHANGED <<inputs, dirs, samples, input_contents, release_output,
                   expected_output, walk>>

\* lines 338-371
DebugRunRelease ==
    /\ pc = "debug_run_release"
    /\ \E run \in BinRuns :
           LET release_bin_path == get_executable_path(os, problem_dir, "release")
               result == run_binary_directly(release_bin_path, input_contents, run)
           IN  IF ~IsSome(to_str(release_bin_path))
               THEN /\ Panic(<<"Failed to convert release binary path to string">>)
                    /\ stdout' = Append(stdout, Header("[output]"))
                    /\ UNCHANGED <<release_output, trace>>
               ELSE
               /\ trace' = Append(trace,
                                  BinEvent(release_bin_path, input_contents, run, result))
               /\ IF result.ok
                  THEN /\ release_output' = result.val
                       /\ stdout' = stdout \o <<Header("[output]"),
                                                 <<"run bin: ">> \o release_bin_path,
                                                 release_output',
                                                 <<"bg:orange", "Execution Time: ", "reset">>>>
                       /\ pc' = "debug_read_expected"
                       /\ UNCHANGED <<stderr, exit_code>>
                  ELSE /\ Fail(InDir("Debug run (release binary) failed", problem_dir)
                               \o result.val)
                       /\ stdout' = stdout \o <<Header("[output]"),
                                                 <<"run bin: ">> \o release_bin_path>>
                       /\ UNCHANGED release_output
    /\ UNCHANGED <<inputs, dirs, samples, input_contents, debug_output,
                   expected_output, walk>>

DebugReadExpectedSkippingAbsent ==
    /\ pc = "debug_read_expected"
    /\ \E file \in fixtures :
           LET result == read_to_string(file)
           IN  /\ trace' = Append(trace, ReadEvent(sample_out_path, file, result))
               /\ expected_output' = IF result.ok THEN strip_bom(result.val) ELSE <<>>
               /\ stdout' = stdout \o <<Header("[expect]"), expected_output'>>
               /\ pc' = "debug_compare"
               /\ UNCHANGED <<stderr, exit_code>>
    /\ UNCHANGED <<inputs, dirs, samples, input_contents, debug_output,
                   release_output, walk>>

\* lines 373-393
DebugReadExpected ==
    /\ pc = "debug_read_expected"
    /\ \E file \in fixtures :
           LET result == read_to_string(file)
           IN  /\ trace' = Append(trace, ReadEvent(sample_out_path, file, result))
               /\ IF result.ok
                  THEN /\ expected_output' = strip_bom(result.val)
                       /\ stdout' = stdout \o <<Header("[expect]"), expected_output'>>
                       /\ pc' = "debug_compare"
                       /\ UNCHANGED <<stderr, exit_code>>
                  ELSE /\ Fail(<<"Failed to read expected output file ">>
                               \o display_debug(os, sample_out_path) \o <<": ">>
                               \o result.val)
                       /\ stdout' = Append(stdout, Header("[expect]"))
                       /\ UNCHANGED expected_output
    /\ UNCHANGED <<inputs, dirs, samples, input_contents, debug_output,
                   release_output, walk>>

\* release_output.trim() == expected_output.trim()   (line 402)
outputs_match_trim_start(release, expected) == trim_start(release) = trim_start(expected)

outputs_match(release, expected) == trim(release) = trim(expected)

DebugCompareFatalMismatch ==
    /\ pc = "debug_compare"
    /\ stdout' = stdout \o <<Header("[comparison result]"),
                             IF outputs_match(release_output, expected_output)
                             THEN SUCCESS_BANNER ELSE FAILURE_BANNER>>
    /\ IF outputs_match(release_output, expected_output)
       THEN pc' = "return" /\ UNCHANGED <<stderr, exit_code>>
       ELSE Fail(<<"Output does not match expected output.">>)
    /\ UNCHANGED <<inputs, dirs, samples, texts, walk, trace>>

DebugCompareUsingDebugOutput ==
    /\ pc = "debug_compare"
    /\ stdout' = stdout \o <<Header("[comparison result]"),
                             IF outputs_match(debug_output, expected_output)
                             THEN SUCCESS_BANNER ELSE FAILURE_BANNER>>
    /\ pc' = "return"
    /\ UNCHANGED <<inputs, dirs, samples, texts, walk, stderr, exit_code, trace>>

\* lines 395-414
DebugCompare ==
    /\ pc = "debug_compare"
    /\ stdout' = stdout \o <<Header("[comparison result]"),
                             IF outputs_match(release_output, expected_output)
                             THEN SUCCESS_BANNER ELSE FAILURE_BANNER>>
    /\ pc' = "return"
    /\ UNCHANGED <<inputs, dirs, samples, texts, walk, stderr, exit_code, trace>>

\* ------------------------------------------------ new, lines 116-212
new_project_cmd(name) == <<"npx atcoder-cli new ">> \o name \o <<" --template rust">>

mkdir_cmd(os_) == IF os_ = Windows THEN <<"mkdir expand">> ELSE <<"mkdir -p expand">>

url_comment(name, problem_letter) ==
    <<"// https://atcoder.jp/contests/">> \o name \o <<"/tasks/">> \o name \o <<"_">>
        \o problem_letter \o <<"\n\n\n">>

\* An item of the read_dir iterator: an error, or an entry with its file name,
\* what path.is_dir() says of it and whether it holds a main.rs.
DirEntry(err, name, is_dir, has_main) ==
    [err |-> err, name |-> name, is_dir |-> is_dir, has_main |-> has_main]

EntryChoices ==
    {DirEntry(TRUE, <<>>, FALSE, FALSE), DirEntry(FALSE, <<"a">>, TRUE, TRUE),
     DirEntry(FALSE, <<"b">>, TRUE, FALSE), DirEntry(FALSE, <<BAD>>, TRUE, TRUE),
     DirEntry(FALSE, <<"contest.acc.json">>, FALSE, FALSE)}

EntryLists ==
    {es \in SeqsUpTo(EntryChoices, MaxEntries) :
        \A i, j \in 1..Len(es) : i # j => es[i] # es[j]}

NewInstall ==
    /\ pc = "new_install"
    /\ RunCommandStep(<<>>, <<"cargo install cargo-expand">>, base_dir,
                      <<"cargo-expand install failed: ">>, "new_scaffold")
    /\ UNCHANGED <<inputs, dirs, samples, texts, walk>>

NewScaffold ==
    /\ pc = "new_scaffold"
    /\ RunCommandStep(<<>>, new_project_cmd(project_dir_name), base_dir,
                      <<"new project command '">> \o new_project_cmd(project_dir_name)
                          \o <<"' failed: ">>,
                      "new_read_dir")
    /\ UNCHANGED <<inputs, dirs, samples, texts, walk>>

\* fs::read_dir(&project_dir), lines 132-133 and 204-211
NewReadDir ==
    /\ pc = "new_read_dir"
    /\ \/ /\ trace' = Append(trace, [op |-> "read_dir", what |-> project_dir,
                                     listing |-> <<>>, ok |-> FALSE])
          /\ Fail(<<"Failed to read project directory (">> \o display(project_dir)
                  \o <<") : ", "NotFound">>)
          /\ UNCHANGED entries
       \/ \E es \in EntryLists :
              /\ trace' = Append(trace, [op |-> "read_dir", what |-> project_dir,
                                         listing |-> es, ok |-> TRUE])
              /\ entries' = es
              /\ pc' = "new_entry"
              /\ UNCHANGED <<stderr, exit_code>>
    /\ UNCHANGED <<inputs, dirs, samples, texts, path, stdout>>

\* for entry in entries.flatten() { let path = entry.path(); if path.is_dir() {
\*     let main_rs_path = path.join("main.rs"); if main_rs_path.exists() { ..
\* lines 135-140; the loop ends when the iterator is exhausted.
NewEntry ==
    /\ pc = "new_entry"
    /\ IF entries = <<>>
       THEN pc' = "return" /\ UNCHANGED <<walk, trace>>
       ELSE LET entry == Head(entries)
            IN  /\ entries' = Tail(entries)
                /\ trace' = Append(trace, [op |-> "dir_entry", entry |-> entry,
                                           ok |-> ~entry.err])
                /\ IF entry.err \/ ~entry.is_dir
                   THEN pc' = "new_entry" /\ UNCHANGED path
                   ELSE /\ path' = join(os, project_dir, entry.name)
                        /\ pc' = IF entry.has_main THEN "new_prepend" ELSE "new_build"
    /\ UNCHANGED <<inputs, dirs, samples, texts, stdout, stderr, exit_code>>

WriteEvent(file_path, data, ok) ==
    [op |-> "write", what |-> file_path, data |-> data, ok |-> ok]

\* lines 141-171: read main.rs, strip the byte order mark, put the URL comment
\* in front and write the file back.  The name of the directory is unwrapped
\* as a str first (line 142); the panic message is written without the
\* grave accents it has around Option::unwrap() and None.
NewPrepend ==
    /\ pc = "new_prepend"
    /\ \E file \in fixtures, write_ok \in BOOLEAN :
           LET main_rs_path == join(os, path, <<"main.rs">>)
               problem_letter == file_name(os, path)
               result == read_to_string(file)
               new_content == url_comment(project_dir_name, problem_letter)
                                  \o strip_bom(result.val)
           IN  IF ~IsSome(to_str(problem_letter))
               THEN /\ Panic(<<"called Option::unwrap() on a None value">>)
                    /\ UNCHANGED trace
               ELSE IF ~result.ok
               THEN /\ write_ok
                    /\ trace' = Append(trace, ReadEvent(main_rs_path, file, result))
                    /\ Fail(<<"Failed to read main.rs(">> \o display(main_rs_path) \o <<") : ">>
                            \o result.val)
               ELSE /\ trace' = trace \o <<ReadEvent(main_rs_path, file, result),
                                            WriteEvent(main_rs_path, new_content, write_ok)>>
                    /\ IF write_ok
                       THEN pc' = "new_mkdir" /\ UNCHANGED <<stderr, exit_code>>
                       ELSE Fail(<<"Failed to write to main.rs(">> \o display(main_rs_path)
                                 \o <<") : ", "PermissionDenied">>)
    /\ UNCHANGED <<inputs, dirs, samples, texts, walk, stdout>>

NewMkdir ==
    /\ pc = "new_mkdir"
    /\ RunCommandStep(<<>>, mkdir_cmd(os), path,
                      <<"Failed to make dir expand  (">> \o display(path) \o <<"): ">>,
                      "new_build")
    /\ UNCHANGED <<inputs, dirs, samples, texts, walk>>

NewBuild ==
    /\ pc = "new_build"
    /\ RunCommandStep(<<<<"Running cargo build in directory '">> \o display(path) \o <<"'">>>>,
                      <<CargoBuild>>, path,
                      InDir("cargo build failed", path), "new_build_release")
    /\ UNCHANGED <<inputs, dirs, samples, texts, walk>>

NewBuildRelease ==
    /\ pc = "new_build_release"
    /\ RunCommandStep(<<>>, <<CargoBuildRelease>>, path,
                      InDir("cargo build failed", path), "new_entry")
    /\ UNCHANGED <<inputs, dirs, samples, texts, walk>>

\* ------------------------------------------------ main returns, line 426
MainReturns ==
    /\ pc = "return"
    /\ Return
    /\ UNCHANGED <<inputs, dirs, samples, texts, walk, stdout, stderr, trace>>

\* ------------------------------------------------ the program
Next ==
    \/ Start
    \/ Dispatch
    \/ NewInstall
    \/ NewScaffold
    \/ NewReadDir
    \/ NewEntry
    \/ NewPrepend
    \/ NewMkdir
    \/ NewBuild
    \/ NewBuildRelease
    \/ TestBuild
    \/ TestOj
    \/ SubmitBuild
    \/ SubmitOj
    \/ SubmitSubmit
    \/ DebugBuild
    \/ DebugReadInput
    \/ DebugRunDebug
    \/ DebugRunRelease
    \/ DebugReadExpected
    \/ DebugCompare
    \/ MainReturns

Spec == Init /\ [][Next]_vars

\* ------------------------------------------------ the text functions alone
\* Debug about to compare, with every pair of texts of at most MaxLen
\* characters as the release binary's output and the expected output: texts
\* of digits and line feeds, and texts with a form feed and a no-break space.
CompareChars == {"4", "5", "\n"}
CompareSpaces == {"4", "\f", "U+00A0"}
CompareTexts == SeqsUpTo(CompareChars, MaxLen) \cup SeqsUpTo(CompareSpaces, MaxLen)

\* The program at a statement of `kp 3 a debug -r /r` or, for the statement
\* of New, of `kp 3 new -r /r` with the directory abc3/a at hand.  stdout and
\* trace hold what is printed and done from that statement on.
MidRun(at) ==
    /\ os = Unix
    /\ args = [contest |-> <<"3">>,
               arg |-> IF at = "new_prepend" THEN Str_new ELSE <<"a">>,
               action |-> IF at = "new_prepend" THEN None ELSE Some(Str_debug),
               sample |-> None, root_dir |-> Some(<<"/", "r">>)]
    /\ cwd = Some(<<"/", "w">>)
    /\ pc = at
    /\ exit_code = None
    /\ base_dir = <<"/", "r">>
    /\ project_dir_name = <<"abc", "3">>
    /\ project_dir = <<"/", "r", "/", "abc", "3">>
    /\ problem_dir = IF at = "new_prepend" THEN <<>> ELSE join(Unix, project_dir, <<"a">>)
    /\ sample_in_path = IF at \in {"new_prepend", "debug_read_input"} THEN <<>>
                        ELSE sample_path(Unix, problem_dir, DEFAULT_SAMPLE, ".in")
    /\ sample_out_path = IF at \in {"new_prepend", "debug_read_input"} THEN <<>>
                         ELSE sample_path(Unix, problem_dir, DEFAULT_SAMPLE, ".out")
    /\ entries = <<>>
    /\ path = IF at = "new_prepend" THEN join(Unix, project_dir, <<"a">>) ELSE <<>>
    /\ stdout = <<>> /\ stderr = <<>> /\ trace = <<>>

InitCompare ==
    /\ MidRun("debug_compare")
    /\ fixtures = SampleFiles
    /\ input_contents = <<>> /\ debug_output = <<>>
    /\ release_output \in CompareTexts
    /\ expected_output \in CompareTexts

NextCompare ==
    \/ DebugCompare
    \/ MainReturns

SpecCompare == InitCompare /\ [][NextCompare]_vars

\* The three places that read a file and strip its byte order mark, each
\* about to run, with every text of at most MaxLen characters in the file.
StripChars == {BOM, "4", "\n"}

InitStrip ==
    /\ \E at \in {"debug_read_input", "debug_read_expected", "new_prepend"} : MidRun(at)
    /\ fixtures = {File("", bytes) : bytes \in SeqsUpTo(StripChars, MaxLen)}
    /\ input_contents = <<>> /\ debug_output = <<>>
    /\ release_output = <<>> /\ expected_output = <<>>

NextStrip ==
    \/ DebugReadInput
    \/ DebugReadExpected
    \/ NewPrepend

SpecStrip == InitStrip /\ [][NextStrip]_vars

\* ================================================================ claims
\* What the claims speak of, read off the record of a run.
IsCommand(i) == trace[i].op = "run_command"
IsBinaryRun(i) == trace[i].op = "run_binary_directly"
IsRead(i) == trace[i].op = "read_to_string"

\* The shell was started and ended with exit status zero.
ExitedZero(i) == trace[i].outcome.spawned /\ trace[i].outcome.status = 0

IsRebuild(i) ==
    /\ IsCommand(i)
    /\ Last(trace[i].what) = "cargo build --release"
    /\ Len(trace[i].what) > 1
IsOjTest(i) == IsCommand(i) /\ Head(trace[i].what) = "oj test -c \""
IsSubmission(i) == IsCommand(i) /\ trace[i].what = <<"npx atcoder-cli submit">>

ActionGiven(a) == args.action = <<a>>
Banners == {i \in 1..Len(stdout) : stdout[i] \in {SUCCESS_BANNER, FAILURE_BANNER}}

\* C1: in Submit the submission command is started only after the rebuild and
\* `oj test` both ended with success; if either reports failure, the
\* submission command is never started and the process exits with status 1.
C1_SubmitOnlyAfterTestsPass ==
    /\ \A i \in 1..Len(trace) :
           IsSubmission(i) =>
               /\ ActionGiven(Str_submit)
               /\ i = 3
               /\ IsRebuild(1) /\ ExitedZero(1)
               /\ IsOjTest(2) /\ ExitedZero(2)
    /\ ( /\ ActionGiven(Str_submit)
         /\ \E i \in 1..Len(trace) :
                (IsRebuild(i) \/ IsOjTest(i)) /\ ~ExitedZero(i) )
       => /\ \A i \in 1..Len(trace) : ~IsSubmission(i)
          /\ Exited(1)

\* Submit, the tests failed: the process has ended.
C1_Witness ==
    /\ ActionGiven(Str_submit)
    /\ Len(trace) = 2 /\ IsRebuild(1) /\ ExitedZero(1)
    /\ IsOjTest(2) /\ trace[2].outcome.spawned /\ trace[2].outcome.status = 1
    /\ Exited(1)

\* ---------------------------------------------------------------- C2
\* The steps of a pipeline: the shell commands, the direct runs of a binary,
\* and the reads and writes of files (stepping through the directory
\* iterator is not one).
StepIndices == {i \in 1..Len(trace) : trace[i].op # "dir_entry"}

\* A shell command failed: the shell could not be started or ended non-zero.
CommandFailed(i) == IsCommand(i) /\ ~ExitedZero(i)
\* A file could not be read or written.
FileFailed(i) ==
    \/ IsRead(i) /\ (trace[i].file.err # ""
                     \/ \E k \in 1..Len(trace[i].file.bytes) : trace[i].file.bytes[k] = BAD)
    \/ trace[i].op \in {"write", "read_dir"} /\ ~trace[i].ok
\* A binary could not be started, fed or waited for.
BinaryNotRun(i) ==
    IsBinaryRun(i) /\ ~(trace[i].run.spawn_ok /\ trace[i].run.write_ok
                        /\ trace[i].run.wait_ok)
\* A binary ran and ended with a non-zero exit code.
BinaryExitedNonZero(i) ==
    /\ IsBinaryRun(i)
    /\ trace[i].run.spawn_ok /\ trace[i].run.write_ok /\ trace[i].run.wait_ok
    /\ trace[i].run.code # 0

StepFailedAsClaimed(i) ==
    CommandFailed(i) \/ FileFailed(i) \/ BinaryNotRun(i) \/ BinaryExitedNonZero(i)

StepFailedAsReported(i) == CommandFailed(i) \/ FileFailed(i) \/ BinaryNotRun(i)

\* C2 as claimed: for every verb, once a step fails (an external command
\* exits non-zero or cannot be started, a file cannot be read or written)
\* no later step is started and the process ends with exit code 1; exit code
\* 0 means every step succeeded.  A solution binary run by Debug is an
\* external command.
C2_Original ==
    /\ \A i \in StepIndices :
           StepFailedAsClaimed(i) => /\ \A j \in StepIndices : j <= i
                                     /\ Exited(1)
    /\ Exited(0) => \A i \in StepIndices : ~StepFailedAsClaimed(i)

\* C2, amended: the same, where the exit code of a solution binary that Debug
\* runs directly does not make its step fail (only a failure to start it, to
\* write its input or to wait for it does).
C2_FailFast ==
    /\ \A i \in StepIndices :
           StepFailedAsReported(i) => /\ \A j \in StepIndices : j <= i
                                      /\ Exited(1)
    /\ Exited(0) => \A i \in StepIndices : ~StepFailedAsReported(i)

\* Debug: the release binary could not be started, after three good steps.
C2_Witness ==
    /\ ActionGiven(Str_debug)
    /\ Len(trace) = 4 /\ BinaryNotRun(4) /\ ~trace[4].run.spawn_ok
    /\ Exited(1)

\* ---------------------------------------------------------------- C3
DebugAllStepsSucceeded ==
    /\ ActionGiven(Str_debug)
    /\ Len(trace) = 5
    /\ \A i \in 1..5 : ~StepFailedAsReported(i)

\* C3: in Debug, when the rebuild, both runs and both reads succeed, exactly
\* one verdict banner is printed and the process then exits with status 0,
\* whether the outputs compare equal or not.
C3_OneBannerExitZero ==
    /\ (DebugAllStepsSucceeded /\ pc \in {"return", "exit"})
           => Cardinality(Banners) = 1
    /\ (DebugAllStepsSucceeded /\ pc = "exit") => Exited(0)
    /\ (DebugAllStepsSucceeded /\ pc \notin {"return", "exit"}) => Running
    /\ Cardinality(Banners) <= 1

\* Debug ended after printing the failure banner.
C3_Witness ==
    /\ DebugAllStepsSucceeded
    /\ pc = "exit"
    /\ \E i \in Banners : stdout[i] = FAILURE_BANNER

\* ---------------------------------------------------------------- C4
\* White space, as Unicode has it: the ASCII controls and the space, the
\* next-line control, and the space and line separators.
WhiteSpace ==
    {"\t", "\n", "U+000B", "\f", "\r", " "} \cup {"U+0085", "U+2028", "U+2029"}
    \cup {"U+00A0", "U+1680", "U+202F", "U+205F", "U+3000"}
    \cup {"U+2000", "U+2001", "U+2002", "U+2003", "U+2004", "U+2005", "U+2006",
          "U+2007", "U+2008", "U+2009", "U+200A"}
\* A text without its leading and trailing white space: what lies between its
\* first and its last character that is not white space.
Core(text) ==
    LET black == {i \in 1..Len(text) : text[i] \notin WhiteSpace}
    IN  IF black = {} THEN <<>>
        ELSE SubSeq(text, CHOOSE i \in black : \A j \in black : i <= j,
                          CHOOSE i \in black : \A j \in black : j <= i)

VerdictPrinted == pc \in {"return", "exit"} /\ Banners # {}
VerdictIsSuccess == \E i \in Banners : stdout[i] = SUCCESS_BANNER

\* C4: the verdict is success exactly when the release binary's output and
\* the expected output are equal once leading and trailing white space is
\* removed from each: "4\n" and "4" are equal; texts that differ in another
\* character or in white space inside are not.
C4_VerdictIsTrimmedEquality ==
    VerdictPrinted =>
        /\ VerdictIsSuccess <=> (Core(release_output) = Core(expected_output))
        /\ (release_output = <<"4", "\n">> /\ expected_output = <<"4">>)
               => VerdictIsSuccess
        /\ (release_output = <<"4", "\n", "5">> /\ expected_output = <<"4", "5">>)
               => ~VerdictIsSuccess
        /\ (release_output = <<"\f", "4", "U+00A0">> /\ expected_output = <<"4">>)
               => VerdictIsSuccess

\* "4\n" against "4": the success banner is printed.
C4_Witness ==
    /\ VerdictPrinted
    /\ release_output = <<"4", "\n">> /\ expected_output = <<"4">>
    /\ VerdictIsSuccess

\* ---------------------------------------------------------------- C5
\* How many BOMs a text starts with.
LeadingBOMs(text) ==
    Cardinality({k \in 1..Len(text) : \A i \in 1..k : text[i] = BOM})

\* The comment New puts in front of abc3/a/main.rs.
UrlCommentOfA ==
    <<"// https://atcoder.jp/contests/", "abc", "3", "/tasks/", "abc", "3", "_", "a",
      "\n\n\n">>

\* The file a strip step read and the text it kept (for main.rs: what follows
\* the comment in the file written back).
StripDone == pc \in {"debug_run_debug", "debug_compare", "new_mkdir"} /\ trace # <<>>
StripRaw ==
    IF pc = "new_mkdir" THEN trace[Len(trace) - 1].file.bytes
    ELSE Last(trace).file.bytes
StripKept ==
    IF pc = "debug_run_debug" THEN input_contents
    ELSE IF pc = "debug_compare" THEN expected_output
    ELSE SubSeq(Last(trace).data, Len(UrlCommentOfA) + 1, Len(Last(trace).data))

\* C5 as claimed: stripping is idempotent, leaves a text without a leading
\* BOM unchanged, and removes from a text with a leading BOM exactly that one
\* marker, also when the text starts with two or more of them.
C5_Original ==
    StripDone =>
        /\ strip_bom(StripKept) = StripKept
        /\ (StripRaw = <<>> \/ Head(StripRaw) # BOM) => StripKept = StripRaw
        /\ (StripRaw # <<>> /\ Head(StripRaw) = BOM) => StripKept = Tail(StripRaw)

\* C5, amended: stripping is idempotent, leaves a text without a leading BOM
\* unchanged, and removes from a text with a leading BOM every one of its
\* leading BOMs and no other character.
C5_StripsEveryLeadingBOM ==
    StripDone =>
        /\ strip_bom(StripKept) = StripKept
        /\ (StripRaw = <<>> \/ Head(StripRaw) # BOM) => StripKept = StripRaw
        /\ StripKept = SubSeq(StripRaw, LeadingBOMs(StripRaw) + 1, Len(StripRaw))
        /\ pc = "new_mkdir" =>
               SubSeq(Last(trace).data, 1, Len(UrlCommentOfA)) = UrlCommentOfA

\* A sample input that starts with two BOMs has been read.
C5_Witness ==
    /\ StripDone /\ pc = "debug_run_debug"
    /\ StripRaw = <<BOM, BOM, "4">>
    /\ input_contents = <<"4">>

\* ---------------------------------------------------------------- C6
\* a joined with b, as a path: b alone if b is rooted; otherwise a, a
\* separator unless a ends with one, and b.
Separator == IF os = Windows THEN "\\" ELSE "/"
Rooted(b) == b # <<>> /\ (b[1] = "/" \/ b[1] = Separator)
Joined(a, b) ==
    IF Rooted(b) THEN b
    ELSE IF a = <<>> \/ a[Len(a)] = "/" \/ a[Len(a)] = Separator THEN a \o b
    ELSE a \o <<Separator>> \o b

\* The directory the run starts from: the override, else the current one.
ClaimedBase == IF args.root_dir # <<>> THEN args.root_dir[1] ELSE cwd[1]
ClaimedProblemDir == Joined(Joined(ClaimedBase, <<"abc">> \o args.contest), args.arg)
ClaimedSampleNumber == IF args.sample = <<>> THEN <<"1">> ELSE args.sample[1]
ClaimedSampleIn ==
    Joined(ClaimedProblemDir, <<"tests/sample-">> \o ClaimedSampleNumber \o <<".in">>)
ClaimedSampleOut ==
    Joined(ClaimedProblemDir, <<"tests/sample-">> \o ClaimedSampleNumber \o <<".out">>)

\* The read of a sample file found no file.
Absent(i) == IsRead(i) /\ trace[i].file.err = "NotFound"

\* A path as a message can show it: what is not Unicode in it appears as
\* U+FFFD.
Shown(p) == [i \in 1..Len(p) |-> IF p[i] = "BAD" THEN "REPL" ELSE p[i]]

\* C6: in Debug with sample number n (1 when none is given), if
\* <problem-dir>/tests/sample-<n>.in does not exist, the error message names
\* exactly that path, the process exits with status 1, and neither binary is
\* run.
C6_MissingInputIsNamed ==
    /\ \A i \in 1..Len(trace) :
           (ActionGiven(Str_debug) /\ IsRead(i) /\ i = 2) =>
               trace[i].what = ClaimedSampleIn
    /\ (ActionGiven(Str_debug) /\ Len(trace) >= 2 /\ Absent(2)) =>
           /\ Exited(1)
           /\ stderr = <<(<<"Failed to read sample input file '">>
                          \o Shown(ClaimedSampleIn) \o <<"' : ", "NotFound">>)>>
           /\ \A j \in 1..Len(trace) : ~IsBinaryRun(j)

\* Debug of sample 5, and there is no sample-5.in.
C6_Witness ==
    /\ ActionGiven(Str_debug) /\ args.sample = <<(<<"5">>)>>
    /\ Len(trace) = 2 /\ Absent(2)
    /\ Exited(1)

\* ---------------------------------------------------------------- C7
\* C7: with a root directory override r, the directory in which Test, Submit
\* and Debug run their commands is r joined with "abc" + c joined with p,
\* whatever the current directory is.
C7_ProblemDirFromRoot ==
    (args.root_dir # <<>> /\ args.action # <<>>) =>
        LET claimed == Joined(Joined(args.root_dir[1], <<"abc">> \o args.contest), args.arg)
        IN  /\ pc \notin {"start", "dispatch"} => problem_dir = claimed
            /\ \A i \in 1..Len(trace) : IsCommand(i) => trace[i].dir = claimed

\* A command has run in /r/abc42/a while the current directory is one whose
\* name is not Unicode.
C7_Witness ==
    /\ args.root_dir = <<(<<"/", "r">>)>> /\ cwd = <<(<<"/", BAD>>)>>
    /\ args.contest = <<"4", "2">> /\ args.arg = <<"a">>
    /\ Len(trace) >= 1 /\ IsCommand(1)
    /\ trace[1].dir = <<"/", "r", Separator, "abc", "4", "2", Separator, "a">>

\* ---------------------------------------------------------------- C8
\* What the error value of a failed run_command carries.
CarriesCommandLine(i) == Contains(trace[i].result.err, trace[i].what)
CarriesDirectory(i) == Contains(trace[i].result.err, trace[i].dir)
CarriesCause(i) ==
    IF trace[i].outcome.spawned
    THEN \E shown \in {"exit status: ", "exit code: "} :
             Contains(trace[i].result.err, <<shown, ToString(trace[i].outcome.status)>>)
    ELSE Contains(trace[i].result.err, <<trace[i].outcome.io_err>>)
SucceedsOnZeroOnly(i) == trace[i].result.ok <=> ExitedZero(i)

\* C8 as claimed: the error value of a failed run carries the command line,
\* the working directory, and the non-zero exit status or the spawn error;
\* run succeeds exactly when the command exited with status zero.
C8_Original ==
    \A i \in 1..Len(trace) :
        IsCommand(i) =>
            /\ SucceedsOnZeroOnly(i)
            /\ ~trace[i].result.ok =>
                   CarriesCommandLine(i) /\ CarriesDirectory(i) /\ CarriesCause(i)

\* C8, amended: the error value carries the command line and the non-zero
\* exit status or the spawn error (the working directory is not in it);
\* run succeeds exactly when the command exited with status zero.
C8_ErrorCarriesCommandAndCause ==
    \A i \in 1..Len(trace) :
        IsCommand(i) =>
            /\ SucceedsOnZeroOnly(i)
            /\ ~trace[i].result.ok => CarriesCommandLine(i) /\ CarriesCause(i)
            /\ trace[i].result.ok => trace[i].result.err = <<>>

\* `oj test` ended with status 1 and run_command returned an error.
C8_Witness ==
    /\ Len(trace) = 2
    /\ IsOjTest(2) /\ trace[2].outcome.spawned /\ trace[2].outcome.status = 1
    /\ ~trace[2].result.ok
    /\ Last(stderr) # <<>>

\* ---------------------------------------------------------------- C9
DebugSampleAbsent == ActionGiven(Str_debug) /\ \E i \in 1..Len(trace) : Absent(i)
NoBinaryRun == \A j \in 1..Len(trace) : ~IsBinaryRun(j)

\* C9 as claimed: in Debug, if sample-<n>.in or sample-<n>.out is absent, no
\* solution binary is executed, no verdict banner is printed, and the process
\* ends with exit code 1.
C9_Original == DebugSampleAbsent => (NoBinaryRun /\ Banners = {} /\ Exited(1))

\* C9, amended: in Debug, when sample-<n>.in or sample-<n>.out is found
\* absent, no verdict banner is printed and the process ends with exit code
\* 1; no solution binary is executed if sample-<n>.in is absent, while
\* sample-<n>.out is only read after both binaries have run.
C9_AbsentSampleIsFatal ==
    DebugSampleAbsent =>
        /\ Banners = {} /\ Exited(1)
        /\ Absent(Len(trace))
        /\ Absent(2) => NoBinaryRun
        /\ ~Absent(2) =>
               /\ Len(trace) = 5
               /\ trace[5].what = ClaimedSampleOut
               /\ IsBinaryRun(3) /\ IsBinaryRun(4)

\* Debug: sample-1.in was read, both binaries ran, sample-1.out is absent.
C9_Witness ==
    /\ ActionGiven(Str_debug)
    /\ Len(trace) = 5 /\ Absent(5) /\ IsBinaryRun(3) /\ IsBinaryRun(4)
    /\ Exited(1)

\* ---------------------------------------------------------------- C10
\* A sub-step of the rebuild ran and ended with a non-zero status.
SubstepFailed(i) ==
    /\ IsRebuild(i)
    /\ \E k \in 1..Len(trace[i].ran) :
           /\ \E c \in RebuildSubsteps : trace[i].ran[k].cmd = <<c>>
           /\ trace[i].ran[k].status # 0

\* C10: in Test, Submit and Debug, a failure of any sub-step of the rebuild
\* (cargo expand, cargo expand --release, cargo build, cargo build --release)
\* makes the rebuild report failure: `oj test` is not started and the process
\* exits with code 1, on Windows and elsewhere.
C10_Original ==
    \A i \in 1..Len(trace) :
        SubstepFailed(i) =>
            /\ ~trace[i].result.ok
            /\ \A j \in 1..Len(trace) : ~IsOjTest(j)
            /\ Len(trace) = i
            /\ Exited(1)

\* ---------------------------------------------------------------- C11
NewGiven == args.arg = <<"n", "e", "w">> /\ args.action = <<>>
ClaimedWorkspace == Joined(ClaimedBase, <<"abc">> \o args.contest)

IsEntry(i) == trace[i].op = "dir_entry"
IsSubdirectory(i) == IsEntry(i) /\ ~trace[i].entry.err /\ trace[i].entry.is_dir
EntryIndices == {i \in 1..Len(trace) : IsEntry(i)}

\* The steps New owes a subdirectory, in order.
OwedSteps(entry) ==
    IF entry.has_main THEN <<"read", "prepend", "mkdir", "build", "build release">>
    ELSE <<"build", "build release">>

\* Event i is the given step, done in (or on the main.rs of) directory dir.
IsStepOf(i, step, dir) ==
    IF step = "read"
    THEN IsRead(i) /\ trace[i].what = Joined(dir, <<"main.rs">>)
    ELSE IF step = "prepend"
    THEN /\ trace[i].op = "write"
         /\ trace[i].what = Joined(dir, <<"main.rs">>)
         /\ Head(trace[i].data) = "// https://atcoder.jp/contests/"
    ELSE /\ IsCommand(i)
         /\ trace[i].dir = dir
         /\ IF step = "mkdir"
            THEN trace[i].what \in {<<"mkdir expand">>, <<"mkdir -p expand">>}
            ELSE IF step = "build" THEN trace[i].what = <<"cargo build">>
            ELSE trace[i].what = <<"cargo build --release">>

\* The events after the entry at i are the steps owed to it, in order and as
\* far as the run went; after the last of them comes the next entry.
EntryIsServed(i) ==
    LET owed == IF IsSubdirectory(i) THEN OwedSteps(trace[i].entry) ELSE <<>>
        dir == Joined(ClaimedWorkspace, trace[i].entry.name)
    IN  /\ \A k \in 1..Len(owed) :
               i + k <= Len(trace) => IsStepOf(i + k, owed[k], dir)
        /\ i + Len(owed) < Len(trace) => IsEntry(i + Len(owed) + 1)

\* C11: New installs cargo-expand, then runs the scaffolding command, then
\* takes the subdirectories one by one: the URL comment and the expand
\* directory come first, and only with a main.rs; then the debug build, then
\* the release build.  A failure ends the run with exit code 1 at once, and
\* nothing written before is undone.  A run ends either so or with exit
\* code 0, and has then built every subdirectory.
C11_Original ==
    (NewGiven /\ trace # <<>>) =>
        /\ pc = "exit" => (Exited(0) \/ Exited(1))
        /\ IsCommand(1) /\ trace[1].what = <<"cargo install cargo-expand">>
        /\ trace[1].dir = ClaimedBase
        /\ Len(trace) >= 2 =>
               /\ IsCommand(2) /\ Head(trace[2].what) = "npx atcoder-cli new "
               /\ trace[2].dir = ClaimedBase
        /\ Len(trace) >= 3 =>
               trace[3].op = "read_dir" /\ trace[3].what = ClaimedWorkspace
        /\ Len(trace) >= 4 => IsEntry(4)
        /\ \A i \in EntryIndices : i > 3 /\ EntryIsServed(i)
        /\ \A i \in 1..Len(trace) :
               StepFailedAsReported(i) => (i = Len(trace) /\ Exited(1))
        /\ Exited(1) => StepFailedAsReported(Len(trace))
        /\ \A i, j \in 1..Len(trace) :
               (trace[i].op = "write" /\ trace[j].op = "write" /\ i # j)
                   => trace[i].what # trace[j].what
        /\ Exited(0) =>
               /\ Len(trace) >= 3
               /\ Cardinality(EntryIndices) = Len(trace[3].listing)
               /\ \A i \in EntryIndices :
                      /\ trace[i].entry
                             = trace[3].listing[Cardinality({j \in EntryIndices : j <= i})]
                      /\ IsSubdirectory(i) =>
                             i + Len(OwedSteps(trace[i].entry)) <= Len(trace)

\* ---------------------------------------------------------------- C12
\* Step i started a child process: the shell of a run_command call
\* (Command::status spawns it) or a solution binary (Command::spawn).
ChildStarted(i) ==
    \/ IsCommand(i) /\ trace[i].outcome.spawned
    \/ IsBinaryRun(i) /\ trace[i].run.spawn_ok
\* The program waited for the child of step i until it had terminated:
\* Command::status returned its exit status, or wait_with_output returned.
\* After a failed write_all, run_binary_directly returns without waiting.
ChildTerminated(i) ==
    \/ IsCommand(i) /\ trace[i].outcome.spawned
    \/ IsBinaryRun(i) /\ trace[i].run.spawn_ok /\ trace[i].run.write_ok
                      /\ trace[i].run.wait_ok
\* The children that may still be running.
ChildrenRunning == {i \in 1..Len(trace) : ChildStarted(i) /\ ~ChildTerminated(i)}

WithoutLeadingBOMs(text) == SubSeq(text, LeadingBOMs(text) + 1, Len(text))
ExecutablePath(build_mode) ==
    Joined(Joined(Joined(ClaimedProblemDir, <<"target">>), <<build_mode>>),
           IF os = "windows" THEN <<"bin.exe">> ELSE <<"bin">>)

\* C12: a step begins only when the child process of every earlier step has
\* terminated, so that at most one child runs at any moment.  Debug rebuilds,
\* reads the sample input, runs the debug binary, runs the release binary,
\* reads the expected output and compares, in this order; both binaries get
\* the sample input without its leading BOMs on their standard input; the
\* verdict is success exactly when the release binary's output equals the
\* expected output after trimming, whatever the debug binary wrote.
C12_SequentialDebug ==
    /\ \A i \in 1..Len(trace) :
           (ChildStarted(i) /\ i < Len(trace)) => ChildTerminated(i)
    /\ Cardinality(ChildrenRunning) <= 1
    /\ ActionGiven(<<"d", "e", "b", "u", "g">>) =>
           /\ Len(trace) <= 5
           /\ Len(trace) >= 1 => IsRebuild(1) /\ trace[1].dir = ClaimedProblemDir
           /\ Len(trace) >= 2 => IsRead(2) /\ trace[2].what = ClaimedSampleIn
           /\ Len(trace) >= 3 =>
                  /\ IsBinaryRun(3) /\ trace[3].what = ExecutablePath("debug")
                  /\ trace[3].stdin = WithoutLeadingBOMs(trace[2].file.bytes)
           /\ Len(trace) >= 4 =>
                  /\ IsBinaryRun(4) /\ trace[4].what = ExecutablePath("release")
                  /\ trace[4].stdin = trace[3].stdin
           /\ Len(trace) >= 5 => IsRead(5) /\ trace[5].what = ClaimedSampleOut
           /\ Banners # {} =>
                  /\ Len(trace) = 5 /\ pc \in {"return", "exit"}
                  /\ VerdictIsSuccess <=>
                         Core(trace[4].result.val)
                             = Core(WithoutLeadingBOMs(trace[5].file.bytes))

\* Debug printed the success banner: both binaries were fed "5", the sample
\* input without its two BOMs; the debug binary wrote "4", the release binary
\* " 5\n", and "5" was expected.
C12_Witness ==
    /\ ActionGiven(<<"d", "e", "b", "u", "g">>)
    /\ Len(trace) = 5 /\ Exited(0)
    /\ trace[2].file.bytes = <<BOM, BOM, "5">>
    /\ trace[3].stdin = <<"5">> /\ trace[4].stdin = <<"5">>
    /\ trace[3].result.val = <<"4">>
    /\ trace[4].result.val = <<" ", "5", "\n">>
    /\ expected_output = <<"5">>
    /\ VerdictIsSuccess

\* ---------------------------------------------------------------- C13
ClaimedActions == {<<"t", "e", "s", "t">>, <<"s", "u", "b", "m", "i", "t">>,
                   <<"d", "e", "b", "u", "g">>}
\* An action that is none of the three, or no action and a second argument
\* other than "new".
BadInvocation ==
    IF args.action = <<>> THEN args.arg # <<"n", "e", "w">>
    ELSE args.action[1] \notin ClaimedActions
IsInstall(i) == IsCommand(i) /\ trace[i].what = <<"cargo install cargo-expand">>

\* C13: New is chosen exactly when the second argument is "new" and no
\* action is given: only then is its first command started, and it is then
\* the first thing done.  With one of the actions test, submit and debug the
\* second argument is the problem label, "new" included: the first command
\* is the rebuild in <workspace>/<label>.  Any other invocation runs no
\* command, reads and writes no file, and ends with exit code 1.
C13_Original ==
    /\ \A i \in 1..Len(trace) : IsInstall(i) => (NewGiven /\ i = 1)
    /\ trace # <<>> =>
           IF NewGiven THEN IsInstall(1)
           ELSE /\ ~BadInvocation
                /\ IsRebuild(1) /\ trace[1].dir = ClaimedProblemDir
    /\ BadInvocation =>
           /\ trace = <<>> /\ stdout = <<>>
           /\ pc = "exit" => Exited(1)

\* ---------------------------------------------------------------- C14
\* C14: in Debug a run of a solution binary fails exactly when the binary
\* could not be started, its input could not be written or waiting for it
\* failed; the exit code of the binary plays no part, and after a run that
\* did not fail Debug goes on.  When every step succeeded, the release binary
\* ended with a non-zero exit code and its output equals the expected output
\* after trimming, the success banner is printed and the exit code is 0.
C14_BinaryStatusNotConsulted ==
    /\ \A i \in 1..Len(trace) :
           IsBinaryRun(i) =>
               /\ ActionGiven(<<"d", "e", "b", "u", "g">>)
               /\ trace[i].ok <=> ~BinaryNotRun(i)
               /\ i = Len(trace) =>
                      IF BinaryNotRun(i) THEN Exited(1) ELSE Running
    /\ ( /\ DebugAllStepsSucceeded
         /\ BinaryExitedNonZero(4)
         /\ Core(trace[4].result.val) = Core(expected_output) ) =>
           /\ pc \in {"return", "exit"} => VerdictIsSuccess
           /\ pc = "exit" => Exited(0)
           /\ pc \notin {"return", "exit"} => Running

\* Debug ended with exit code 0 after the success banner, although the
\* release binary ended with exit code 101.
C14_Witness ==
    /\ DebugAllStepsSucceeded
    /\ BinaryExitedNonZero(4) /\ trace[4].run.code = 101
    /\ ~BinaryExitedNonZero(3)
    /\ Core(trace[4].result.val) = Core(expected_output)
    /\ VerdictIsSuccess
    /\ pc = "exit" /\ Exited(0)

====
